---- MODULE Spec2Model ----
(***************************************************************************)
(* A model of difftastic's top-level orchestration:                        *)
(*   - diff_file_content (src/src/lib.rs), one step per statement group;   *)
(*   - print_diff_result (src/src/lib.rs) and the directory mode of main   *)
(*     (src/src/main.rs), where a rayon pool prints the results.           *)
(* Bytes and characters are one-symbol strings ("a", "(", "TAB", "NL",     *)
(* "SP", "NUL"); an Option is a sequence of length 0 (None) or 1 (Some).   *)
(* The collaborators whose code lives in other modules of the crate        *)
(* (files, parse, diff, line_parser) are modelled from the design text.    *)
(***************************************************************************)
EXTENDS Integers, Sequences, FiniteSets, TLC

VARIABLES
    args,          \* the arguments of the running diff_file_content call
    env_keep,      \* whether DFT_DBG_KEEP_UNCHANGED is set in the environment
    pc,            \* position inside diff_file_content
    lhs_src, rhs_src,          \* the two source strings (locals)
    language, lang_config,     \* Option<Language>, Option<grammar>
    arena,                     \* the typed arena: a sequence of syntax nodes
    lhs, rhs,                  \* root node lists (references into arena)
    change_map,                \* ChangeMap: unique id -> change kind
    possibly_changed,          \* the gaps still to be handed to the search
    exceeded_graph_limit,
    lang_name, lhs_positions, rhs_positions,
    result,                    \* Option<DiffResult>: Some once the call returned
    trace,                     \* history: the operations executed by this call
    searched,                  \* history: what each mark_syntax call was given
    call,                      \* 1 for the first call, 2 for the repeated call
    first,                     \* Option: arguments, result and trace of call 1
    files, print_unchanged,    \* directory mode: the files and the display option
    wpc, wfile, wresult,       \* directory mode: each worker's position, file, result
    wnext,                     \* directory mode: the next println! of each worker
    pending,                   \* directory mode: files no worker has taken yet
    stdout                     \* directory mode: the lines written so far

vars == << args, env_keep, pc, lhs_src, rhs_src, language, lang_config, arena,
           lhs, rhs, change_map, possibly_changed, exceeded_graph_limit,
           lang_name, lhs_positions, rhs_positions, result, trace, searched, call, first,
           files, print_unchanged, wpc, wfile, wresult, wnext, pending, stdout >>

fileVars == << args, env_keep, pc, lhs_src, rhs_src, language, lang_config, arena,
               lhs, rhs, change_map, possibly_changed, exceeded_graph_limit,
               lang_name, lhs_positions, rhs_positions, result, trace, searched, call, first >>

dirVars == << files, print_unchanged, wpc, wfile, wresult, wnext, pending, stdout >>

(***************************************************************************)
(* Bounds of the model.                                                    *)
(***************************************************************************)
NumSamples == 9        \* how many of the sample inputs are used
MaxTabWidth == 3       \* tab widths are 1 and MaxTabWidth
MaxByteLimit == 7      \* byte limits are 2 and MaxByteLimit
MaxGraphLimit == 9     \* graph limits are 1, 4 and MaxGraphLimit
NumFiles == 3          \* directory mode: files in the directory pair
NumWorkers == 2        \* directory mode: threads of the pool

None == << >>
Some(x) == << x >>

Min(a, b) == IF a < b THEN a ELSE b

(***************************************************************************)
(* Sample inputs.  Each is a byte string.                                  *)
(***************************************************************************)
Samples ==
    << << "a" >>,
       << "a", "NL" >>,
       << "(", "a", ")", "(", "b", ")" >>,
       << "(", "b", ")", "(", "a", "a", ")" >>,
       << "a", "NUL" >>,
       << "TAB", "b" >>,
       << "a", "a" >>,
       << "b", "a" >>,
       << "a", "NL", "b" >>,
       << >>,
       << "NUL" >>,
       << "(", "a", "SP", "b", ")" >> >>

Sources == { Samples[i] : i \in 1..Min(NumSamples, Len(Samples)) }

TabWidths == { 1, MaxTabWidth }
ByteLimits == { 2, MaxByteLimit }
GraphLimits == { 1, 4, MaxGraphLimit }
FileArguments == { "NamedPath", "Stdin", "DevNull" }
LanguageOverrides == { None, Some("Json") }
(* <<lhs_display_path, rhs_display_path>> *)
DisplayPaths ==
    { << [stem |-> "l", ext |-> "txt"], [stem |-> "r", ext |-> "txt"] >>,
      << [stem |-> "l", ext |-> "json"], [stem |-> "r", ext |-> "el"] >> }

(***************************************************************************)
(* files::guess_content: a NUL byte within the probe window means binary.  *)
(***************************************************************************)
BinaryProbeLen == 1024

guess_content(bytes) ==
    IF \E i \in 1..Min(Len(bytes), BinaryProbeLen) : bytes[i] = "NUL"
    THEN [kind |-> "Binary"]
    ELSE [kind |-> "Text", text |-> bytes]

(***************************************************************************)
(* replace_tabs: every tab becomes tab_width spaces.                       *)
(***************************************************************************)
RECURSIVE Repeat(_, _)
Repeat(c, n) == IF n = 0 THEN << >> ELSE << c >> \o Repeat(c, n - 1)

RECURSIVE replace_tabs(_, _)
replace_tabs(src, tab_width) ==
    IF src = << >> THEN << >>
    ELSE (IF Head(src) = "TAB" THEN Repeat("SP", tab_width) ELSE << Head(src) >>)
         \o replace_tabs(Tail(src), tab_width)

(* lib.rs 121-126: drop one trailing newline, if present. *)
strip_trailing_newline(src) ==
    IF Len(src) > 0 /\ src[Len(src)] = "NL" THEN SubSeq(src, 1, Len(src) - 1) ELSE src

(***************************************************************************)
(* parse::guess_language                                                   *)
(***************************************************************************)
guess(path, src) ==
    IF Len(src) > 0 /\ src[1] = "("  THEN Some("EmacsLisp")
    ELSE IF path.ext = "el"   THEN Some("EmacsLisp")
    ELSE IF path.ext = "json" THEN Some("Json")
    ELSE None

language_name(l) == IF l = "EmacsLisp" THEN "Emacs Lisp" ELSE "JSON"

from_language(l) == [grammar |-> l]



(***************************************************************************)
(* Syntax nodes.  A node lives in the arena; a reference is its index.     *)
(* The navigation fields start at their defaults and are filled in later.  *)
(***************************************************************************)
IsSpace(c) == c \in { "SP", "NL", "TAB" }

RECURSIVE LineOf(_, _)
LineOf(src, i) ==
    IF i <= 1 THEN 0
    ELSE LineOf(src, i - 1) + (IF src[i - 1] = "NL" THEN 1 ELSE 0)

RECURSIVE ColOf(_, _)
ColOf(src, i) ==
    IF i <= 1 \/ src[i - 1] = "NL" THEN 0 ELSE ColOf(src, i - 1) + 1

PosOf(src, i) == [line |-> LineOf(src, i), col |-> ColOf(src, i)]

NoPos == [line |-> 0, col |-> 0]

NewAtom(src, i) ==
    [ kind |-> "atom", text |-> src[i], children |-> << >>,
      pos |-> PosOf(src, i), close_pos |-> NoPos,
      parent |-> None, prev_sibling |-> None, next_sibling |-> None,
      num_ancestors |-> 0, content_id |-> None, unique_id |-> 0 ]

NewList(src, i, j, kids) ==
    [ kind |-> "list", text |-> "", children |-> kids,
      pos |-> PosOf(src, i), close_pos |-> PosOf(src, j),
      parent |-> None, prev_sibling |-> None, next_sibling |-> None,
      num_ancestors |-> 0, content_id |-> None, unique_id |-> 0 ]

(* The index of the first ")" after position i, or 0. *)
RECURSIVE ClosingIndex(_, _)
ClosingIndex(src, i) ==
    IF i >= Len(src) THEN 0
    ELSE IF src[i + 1] = ")" THEN i + 1
    ELSE ClosingIndex(src, i + 1)

(* The atoms of src[from..to], whitespace discarded. *)
RECURSIVE AtomsBetween(_, _, _)
AtomsBetween(src, from, to) ==
    IF from > to THEN << >>
    ELSE (IF IsSpace(src[from]) THEN << >> ELSE << NewAtom(src, from) >>)
         \o AtomsBetween(src, from + 1, to)

(***************************************************************************)
(* tree_sitter_parser::parse: the root node list of src, allocated in the  *)
(* arena.  "(" ... ")" is a list of atoms; an unmatched delimiter is kept  *)
(* as an atom (a partial tree, never an error).                            *)
(***************************************************************************)
RECURSIVE ParseFrom(_, _, _, _)
ParseFrom(src, i, ar, roots) ==
    IF i > Len(src) THEN [arena |-> ar, roots |-> roots]
    ELSE IF IsSpace(src[i]) THEN ParseFrom(src, i + 1, ar, roots)
    ELSE IF src[i] = "(" /\ ClosingIndex(src, i) > 0 THEN
        LET j == ClosingIndex(src, i)
            atoms == AtomsBetween(src, i + 1, j - 1)
            kids == [k \in 1..Len(atoms) |-> Len(ar) + k]
            me == Len(ar) + Len(atoms) + 1
        IN ParseFrom(src, j + 1, ar \o atoms \o << NewList(src, i, j, kids) >>,
                     Append(roots, me))
    ELSE ParseFrom(src, i + 1, Append(ar, NewAtom(src, i)), Append(roots, Len(ar) + 1))

parse(ar, src, ts_lang) == ParseFrom(src, 1, ar, << >>)

(***************************************************************************)
(* Navigation.                                                             *)
(***************************************************************************)
InSeq(x, s) == \E k \in 1..Len(s) : s[k] = x

IndexIn(x, s) == CHOOSE k \in 1..Len(s) : s[k] = x

PrevIn(x, s) == IF IndexIn(x, s) = 1 THEN None ELSE Some(s[IndexIn(x, s) - 1])

NextIn(x, s) == IF IndexIn(x, s) = Len(s) THEN None ELSE Some(s[IndexIn(x, s) + 1])

ParentOf(ar, ref) ==
    IF \E p \in 1..Len(ar) : InSeq(ref, ar[p].children)
    THEN Some(CHOOSE p \in 1..Len(ar) : InSeq(ref, ar[p].children))
    ELSE None

(* The content fingerprint: equal exactly for structurally equal nodes. *)
RECURSIVE Fingerprint(_, _)
Fingerprint(ar, ref) ==
    IF ar[ref].kind = "atom" THEN << "atom", ar[ref].text >>
    ELSE << "list", [k \in 1..Len(ar[ref].children) |-> Fingerprint(ar, ar[ref].children[k])] >>

(* The sibling list a node belongs to: a root list or its parent's children. *)
SiblingsOf(ar, l, r, ref) ==
    IF InSeq(ref, l) THEN l
    ELSE IF InSeq(ref, r) THEN r
    ELSE ar[ParentOf(ar, ref)[1]].children

(***************************************************************************)
(* syntax::init_all_info: fills in parent, siblings, ancestor count,       *)
(* fingerprint and identity of every node of both trees.                   *)
(***************************************************************************)
init_all_info(ar, l, r) ==
    [ ref \in 1..Len(ar) |->
        [ ar[ref] EXCEPT
            !.parent = ParentOf(ar, ref),
            !.prev_sibling = PrevIn(ref, SiblingsOf(ar, l, r, ref)),
            !.next_sibling = NextIn(ref, SiblingsOf(ar, l, r, ref)),
            !.num_ancestors = IF ParentOf(ar, ref) = None THEN 0 ELSE 1,
            !.content_id = Some(Fingerprint(ar, ref)),
            !.unique_id = ref ] ]

(***************************************************************************)
(* syntax::init_next_prev: (re)links the siblings of one node list, and of *)
(* the children below it, relative to that list.                           *)
(***************************************************************************)
init_next_prev(ar, nodes) ==
    [ ref \in 1..Len(ar) |->
        IF InSeq(ref, nodes)
        THEN [ ar[ref] EXCEPT !.prev_sibling = PrevIn(ref, nodes),
                              !.next_sibling = NextIn(ref, nodes) ]
        ELSE IF \E n \in 1..Len(nodes) : InSeq(ref, ar[nodes[n]].children)
        THEN LET kids == ar[CHOOSE p \in 1..Len(ar) : InSeq(ref, ar[p].children)].children
             IN [ ar[ref] EXCEPT !.prev_sibling = PrevIn(ref, kids),
                                 !.next_sibling = NextIn(ref, kids) ]
        ELSE ar[ref] ]

(* The navigation fields of every node, as the later passes see them. *)
NavFields(ar) ==
    [ ref \in 1..Len(ar) |->
        << ar[ref].parent, ar[ref].prev_sibling, ar[ref].next_sibling,
           ar[ref].num_ancestors, ar[ref].content_id, ar[ref].unique_id >> ]


(***************************************************************************)
(* The change map: unique id -> change kind.                               *)
(***************************************************************************)
EmptyChangeMap == [ id \in {} |-> 0 ]

Unchanged(peer) == [kind |-> "Unchanged", peer |-> peer]

Novel == [kind |-> "Novel", peer |-> 0]

Id(ar, ref) == ar[ref].unique_id

SameContent(ar, l, r) == ar[l].content_id = ar[r].content_id

RECURSIVE MarkUnchangedNode(_, _, _, _)
RECURSIVE MarkUnchangedPairs(_, _, _, _)
(* Records l and r, and their descendants pairwise, as each other's peers. *)
MarkUnchangedNode(ar, cm, l, r) ==
    MarkUnchangedPairs(ar,
        (Id(ar, l) :> Unchanged(Id(ar, r))) @@ (Id(ar, r) :> Unchanged(Id(ar, l))) @@ cm,
        ar[l].children, ar[r].children)

MarkUnchangedPairs(ar, cm, ls, rs) ==
    IF ls = << >> \/ rs = << >> THEN cm
    ELSE MarkUnchangedPairs(ar, MarkUnchangedNode(ar, cm, Head(ls), Head(rs)),
                            Tail(ls), Tail(rs))

RECURSIVE MarkNovel(_, _, _)
(* Records every node of the list, and its descendants, as novel. *)
MarkNovel(ar, cm, nodes) ==
    IF nodes = << >> THEN cm
    ELSE MarkNovel(ar,
                   MarkNovel(ar, (Id(ar, Head(nodes)) :> Novel) @@ cm,
                             ar[Head(nodes)].children),
                   Tail(nodes))

RECURSIVE CommonPrefixLen(_, _, _)
CommonPrefixLen(ar, ls, rs) ==
    IF ls = << >> \/ rs = << >> \/ ~SameContent(ar, Head(ls), Head(rs)) THEN 0
    ELSE 1 + CommonPrefixLen(ar, Tail(ls), Tail(rs))

RECURSIVE CommonSuffixLen(_, _, _)
CommonSuffixLen(ar, ls, rs) ==
    IF ls = << >> \/ rs = << >> \/ ~SameContent(ar, ls[Len(ls)], rs[Len(rs)]) THEN 0
    ELSE 1 + CommonSuffixLen(ar, SubSeq(ls, 1, Len(ls) - 1), SubSeq(rs, 1, Len(rs) - 1))

(***************************************************************************)
(* unchanged::mark_unchanged: peels the common prefix and suffix of the    *)
(* two node lists, descends into a pair of lists that differ inside, and   *)
(* returns the gaps that remain together with the updated change map.      *)
(***************************************************************************)
RECURSIVE mark_unchanged(_, _, _, _)
mark_unchanged(ar, ls, rs, cm) ==
    LET p == CommonPrefixLen(ar, ls, rs)
        ls1 == SubSeq(ls, p + 1, Len(ls))
        rs1 == SubSeq(rs, p + 1, Len(rs))
        s == CommonSuffixLen(ar, ls1, rs1)
        ml == SubSeq(ls1, 1, Len(ls1) - s)
        mr == SubSeq(rs1, 1, Len(rs1) - s)
        cm1 == MarkUnchangedPairs(ar,
                   MarkUnchangedPairs(ar, cm, SubSeq(ls, 1, p), SubSeq(rs, 1, p)),
                   SubSeq(ls1, Len(ls1) - s + 1, Len(ls1)),
                   SubSeq(rs1, Len(rs1) - s + 1, Len(rs1)))
    IN  IF ml = << >> /\ mr = << >> THEN [gaps |-> << >>, cm |-> cm1]
        ELSE IF ml # << >> /\ mr # << >>
                /\ ar[Head(ml)].kind = "list" /\ ar[Head(mr)].kind = "list" THEN
            LET l == Head(ml)
                r == Head(mr)
                cm2 == (Id(ar, l) :> Unchanged(Id(ar, r)))
                       @@ (Id(ar, r) :> Unchanged(Id(ar, l))) @@ cm1
                inner == mark_unchanged(ar, ar[l].children, ar[r].children, cm2)
                rest == mark_unchanged(ar, Tail(ml), Tail(mr), inner.cm)
            IN [gaps |-> inner.gaps \o rest.gaps, cm |-> rest.cm]
        ELSE [gaps |-> << [lhs |-> ml, rhs |-> mr] >>, cm |-> cm1]

(***************************************************************************)
(* dijkstra::mark_syntax.  The search starts at the two first nodes and    *)
(* walks the next-sibling links.  It gives up when the vertices it has to  *)
(* visit exceed the graph limit; otherwise it records the cheapest         *)
(* alignment in the change map.                                            *)
(***************************************************************************)
RECURSIVE Chain(_, _)
Chain(ar, start) ==
    IF start = None THEN << >>
    ELSE << start[1] >> \o Chain(ar, ar[start[1]].next_sibling)

RECURSIVE TreeSize(_, _)
TreeSize(ar, nodes) ==
    IF nodes = << >> THEN 0
    ELSE 1 + TreeSize(ar, ar[Head(nodes)].children) + TreeSize(ar, Tail(nodes))

GraphSize(ar, ls, rs) == (TreeSize(ar, ls) + 1) * (TreeSize(ar, rs) + 1)

RECURSIVE Align(_, _, _, _)
(* The cheapest edit path over two sibling lists: its cost and its marks. *)
Align(ar, ls, rs, cm) ==
    IF ls = << >> /\ rs = << >> THEN [cost |-> 0, cm |-> cm]
    ELSE IF ls # << >> /\ rs # << >> /\ SameContent(ar, Head(ls), Head(rs)) THEN
        Align(ar, Tail(ls), Tail(rs), MarkUnchangedNode(ar, cm, Head(ls), Head(rs)))
    ELSE
        LET skipL == IF ls = << >> THEN [cost |-> -1, cm |-> cm]
                     ELSE LET t == Align(ar, Tail(ls), rs, MarkNovel(ar, cm, << Head(ls) >>))
                          IN [cost |-> t.cost + TreeSize(ar, << Head(ls) >>), cm |-> t.cm]
            skipR == IF rs = << >> THEN [cost |-> -1, cm |-> cm]
                     ELSE LET t == Align(ar, ls, Tail(rs), MarkNovel(ar, cm, << Head(rs) >>))
                          IN [cost |-> t.cost + TreeSize(ar, << Head(rs) >>), cm |-> t.cm]
        IN  IF skipR.cost < 0 THEN skipL
            ELSE IF skipL.cost < 0 THEN skipR
            ELSE IF skipL.cost <= skipR.cost THEN skipL ELSE skipR

mark_syntax(ar, lhs_first, rhs_first, cm, graph_limit) ==
    LET ls == Chain(ar, lhs_first)
        rs == Chain(ar, rhs_first)
    IN  IF GraphSize(ar, ls, rs) > graph_limit
        THEN [ok |-> FALSE, cm |-> cm]
        ELSE [ok |-> TRUE, cm |-> Align(ar, ls, rs, cm).cm]

(***************************************************************************)
(* sliders::fix_all_sliders: a novel atom directly followed by an          *)
(* unchanged sibling of the same content takes over that sibling's match,  *)
(* so that the novel node ends up last among equal siblings.               *)
(***************************************************************************)
RECURSIVE SlideSiblings(_, _, _, _)
SlideSiblings(ar, sibs, k, cm) ==
    IF k >= Len(sibs) THEN cm
    ELSE LET a == Id(ar, sibs[k])
             b == Id(ar, sibs[k + 1])
         IN IF /\ a \in DOMAIN cm /\ cm[a].kind = "Novel"
               /\ b \in DOMAIN cm /\ cm[b].kind = "Unchanged"
               /\ ar[sibs[k]].kind = "atom"
               /\ SameContent(ar, sibs[k], sibs[k + 1])
            THEN SlideSiblings(ar, sibs, k + 1,
                     (a :> Unchanged(cm[b].peer)) @@ (b :> Novel)
                     @@ (cm[b].peer :> Unchanged(a)) @@ cm)
            ELSE SlideSiblings(ar, sibs, k + 1, cm)

RECURSIVE SlideChildren(_, _, _)
SlideChildren(ar, nodes, cm) ==
    IF nodes = << >> THEN cm
    ELSE SlideChildren(ar, Tail(nodes),
                       SlideSiblings(ar, ar[Head(nodes)].children, 1, cm))

fix_all_sliders(lang, ar, nodes, cm) ==
    SlideChildren(ar, nodes, SlideSiblings(ar, nodes, 1, cm))

(***************************************************************************)
(* parse::syntax::change_positions: the spans of one side in source order, *)
(* each tagged with the change kind of its node (unassigned is novel).     *)
(***************************************************************************)
KindOf(ar, cm, ref) == IF Id(ar, ref) \in DOMAIN cm THEN cm[Id(ar, ref)] ELSE Novel

RECURSIVE syntax_change_positions(_, _, _)
syntax_change_positions(ar, nodes, cm) ==
    IF nodes = << >> THEN << >>
    ELSE LET n == Head(nodes)
         IN (IF ar[n].kind = "atom"
             THEN << [kind |-> KindOf(ar, cm, n), pos |-> ar[n].pos] >>
             ELSE << [kind |-> KindOf(ar, cm, n), pos |-> ar[n].pos] >>
                  \o syntax_change_positions(ar, ar[n].children, cm)
                  \o << [kind |-> KindOf(ar, cm, n), pos |-> ar[n].close_pos] >>)
            \o syntax_change_positions(ar, Tail(nodes), cm)

(***************************************************************************)
(* line_parser::change_positions: one novel span per line of src that is   *)
(* not part of a longest common subsequence with the other side's lines.   *)
(***************************************************************************)
RECURSIVE SplitLines(_, _)
(* cur is the line being collected. *)
SplitLines(src, cur) ==
    IF src = << >> THEN (IF cur = << >> THEN << >> ELSE << cur >>)
    ELSE IF Head(src) = "NL" THEN << cur >> \o SplitLines(Tail(src), << >>)
    ELSE SplitLines(Tail(src), Append(cur, Head(src)))

RECURSIVE LcsLen(_, _)
LcsLen(xs, ys) ==
    IF xs = << >> \/ ys = << >> THEN 0
    ELSE IF Head(xs) = Head(ys) THEN 1 + LcsLen(Tail(xs), Tail(ys))
    ELSE LET a == LcsLen(Tail(xs), ys)
             b == LcsLen(xs, Tail(ys))
         IN IF a >= b THEN a ELSE b

RECURSIVE NovelLines(_, _, _)
NovelLines(xs, ys, i) ==
    IF xs = << >> THEN << >>
    ELSE IF ys = << >> THEN << i >> \o NovelLines(Tail(xs), ys, i + 1)
    ELSE IF Head(xs) = Head(ys) THEN NovelLines(Tail(xs), Tail(ys), i + 1)
    ELSE IF LcsLen(Tail(xs), ys) >= LcsLen(xs, Tail(ys))
         THEN << i >> \o NovelLines(Tail(xs), ys, i + 1)
         ELSE NovelLines(xs, Tail(ys), i)

line_change_positions(src, opposite_src) ==
    LET novel == NovelLines(SplitLines(src, << >>), SplitLines(opposite_src, << >>), 0)
    IN [ k \in 1..Len(novel) |-> [kind |-> Novel, pos |-> [line |-> novel[k], col |-> 0]] ]


(***************************************************************************)
(* diff_file_content, lib.rs 86-237.                                       *)
(***************************************************************************)
Binary(bytes) == [kind |-> "Binary", data |-> bytes]

Text(src) == [kind |-> "Text", data |-> src]

DiffResult(name, lang, l_src, r_src, l_pos, r_pos) ==
    [ lhs_display_path |-> args.lhs_display_path,
      rhs_display_path |-> args.rhs_display_path,
      language |-> name,
      detected_language |-> lang,
      lhs_src |-> l_src,
      rhs_src |-> r_src,
      lhs_positions |-> l_pos,
      rhs_positions |-> r_pos ]

Locals == << lhs_src, rhs_src, language, lang_config, arena, lhs, rhs, change_map,
             possibly_changed, exceeded_graph_limit, lang_name,
             lhs_positions, rhs_positions >>

Caller == << args, env_keep, call, first >>

HasTab(bytes) == \E i \in 1..Len(bytes) : bytes[i] = "TAB"

LocalsInit ==
    /\ lhs_src = << >> /\ rhs_src = << >>
    /\ language = None /\ lang_config = None
    /\ arena = << >> /\ lhs = << >> /\ rhs = << >>
    /\ change_map = EmptyChangeMap
    /\ possibly_changed = << >>
    /\ exceeded_graph_limit = FALSE
    /\ lang_name = None
    /\ lhs_positions = << >> /\ rhs_positions = << >>
    /\ result = None
    /\ trace = << >>
    /\ searched = << >>

DirIdle ==
    /\ files = << >>
    /\ print_unchanged = FALSE
    /\ wpc = [w \in 1..NumWorkers |-> "idle"]
    /\ wfile = [w \in 1..NumWorkers |-> 0]
    /\ wresult = [w \in 1..NumWorkers |-> None]
    /\ wnext = [w \in 1..NumWorkers |-> 0]
    /\ pending = {}
    /\ stdout = << >>

Init ==
    /\ \E l \in Sources, r \in Sources, dp \in DisplayPaths, rp \in FileArguments,
          tw \in TabWidths, gl \in GraphLimits, bl \in ByteLimits,
          lo \in LanguageOverrides :
          \* replace_tabs is the identity on inputs without a tab: the tab
          \* width is varied only where it can matter
          /\ (HasTab(l) \/ HasTab(r) \/ tw = MaxTabWidth)
          /\ args = [ lhs_display_path |-> dp[1], rhs_display_path |-> dp[2],
                     lhs_path |-> "NamedPath", rhs_path |-> rp,
                     lhs_bytes |-> l, rhs_bytes |-> r,
                     tab_width |-> tw, graph_limit |-> gl, byte_limit |-> bl,
                     language_override |-> lo ]
    /\ env_keep \in BOOLEAN
    /\ pc = "guess_content"
    /\ call = 1
    /\ first = None
    /\ LocalsInit
    /\ DirIdle

(* A slip of lib.rs 105-106: only the side that is binary is reported as binary. *)
BinaryResult_TextSideKept(l_bytes, r_bytes) ==
    DiffResult(None, None,
               IF guess_content(l_bytes).kind = "Binary" THEN Binary(l_bytes) ELSE Text(l_bytes),
               IF guess_content(r_bytes).kind = "Binary" THEN Binary(r_bytes) ELSE Text(r_bytes),
               << >>, << >>)

(* A slip of lib.rs 105: the lhs side is reported as text. *)
BinaryResult_LhsText(l_bytes, r_bytes) ==
    DiffResult(None, None, Text(l_bytes), Binary(r_bytes), << >>, << >>)

(* lib.rs 100-109 *)
BinaryResult(l_bytes, r_bytes) ==
    DiffResult(None, None, Binary(l_bytes), Binary(r_bytes), << >>, << >>)

(* lib.rs 98-112 *)
GuessContent ==
    /\ pc = "guess_content"
    /\ trace' = Append(trace, "guess_content")
    /\ LET l == guess_content(args.lhs_bytes)
           r == guess_content(args.rhs_bytes)
       IN IF l.kind = "Binary" \/ r.kind = "Binary"
          THEN /\ result' = Some(BinaryResult(args.lhs_bytes, args.rhs_bytes))
               /\ pc' = "returned"
               /\ UNCHANGED << lhs_src, rhs_src >>
          ELSE /\ lhs_src' = l.text
               /\ rhs_src' = r.text
               /\ pc' = "replace_tabs"
               /\ UNCHANGED result
    /\ UNCHANGED << language, lang_config, arena, lhs, rhs, change_map, possibly_changed,
                    exceeded_graph_limit, lang_name, lhs_positions, rhs_positions,
                    searched >>
    /\ UNCHANGED Caller
    /\ UNCHANGED dirVars

(* lib.rs 115-116 *)
ReplaceTabs ==
    /\ pc = "replace_tabs"
    /\ lhs_src' = replace_tabs(lhs_src, args.tab_width)
    /\ rhs_src' = replace_tabs(rhs_src, args.tab_width)
    /\ trace' = Append(trace, "replace_tabs")
    /\ pc' = "strip_newline"
    /\ UNCHANGED << language, lang_config, arena, lhs, rhs, change_map, possibly_changed,
                    exceeded_graph_limit, lang_name, lhs_positions, rhs_positions,
                    result, searched >>
    /\ UNCHANGED Caller
    /\ UNCHANGED dirVars

(* lib.rs 121-126 *)
StripNewline ==
    /\ pc = "strip_newline"
    /\ lhs_src' = strip_trailing_newline(lhs_src)
    /\ rhs_src' = strip_trailing_newline(rhs_src)
    /\ trace' = Append(trace, "strip_newline")
    /\ pc' = "guess_language"
    /\ UNCHANGED << language, lang_config, arena, lhs, rhs, change_map, possibly_changed,
                    exceeded_graph_limit, lang_name, lhs_positions, rhs_positions,
                    result, searched >>
    /\ UNCHANGED Caller
    /\ UNCHANGED dirVars

(* lib.rs 128-132: what the language guesser is shown. *)
GuessSrc(rhs_path, l_src, r_src) == IF rhs_path = "DevNull" THEN l_src ELSE r_src

(* A slip of lib.rs 128: the match is on lhs_path. *)
GuessPath_ByLhsPath(rhs_path, l_path, r_path) ==
    IF args.lhs_path = "NamedPath" THEN r_path ELSE l_path

GuessPath(rhs_path, l_path, r_path) == IF rhs_path = "NamedPath" THEN r_path ELSE l_path

(* lib.rs 128-135 *)
GuessLanguage ==
    /\ pc = "guess_language"
    /\ LET guessed == guess(GuessPath(args.rhs_path, args.lhs_display_path,
                                      args.rhs_display_path),
                            GuessSrc(args.rhs_path, lhs_src, rhs_src))
           lang == IF args.language_override # None THEN args.language_override
                   ELSE guessed
       IN /\ language' = lang
          /\ lang_config' = (IF lang = None THEN None ELSE Some(from_language(lang[1])))
          /\ trace' = trace
                      \o (IF args.language_override = None THEN << "guess" >> ELSE << >>)
                      \o (IF lang # None THEN << "from_language" >> ELSE << >>)
    /\ pc' = "identical"
    /\ UNCHANGED << lhs_src, rhs_src, arena, lhs, rhs, change_map, possibly_changed,
                    exceeded_graph_limit, lang_name, lhs_positions, rhs_positions,
                    result, searched >>
    /\ UNCHANGED Caller
    /\ UNCHANGED dirVars

(* A slip of lib.rs 137: the comparison is inverted. *)
Identical_Inverted(l_bytes, r_bytes) == l_bytes # r_bytes

(* A slip of lib.rs 137: the early return is never taken. *)
Identical_Never(l_bytes, r_bytes) == FALSE

(* lib.rs 137: the test that guards the early return. *)
Identical(l_bytes, r_bytes) == l_bytes = r_bytes

(* lib.rs 137-150 *)
CheckIdentical ==
    /\ pc = "identical"
    /\ IF Identical(args.lhs_bytes, args.rhs_bytes)
       THEN /\ result' = Some(DiffResult((IF language = None THEN None ELSE Some(language_name(language[1]))), language,
                                         Text(<< >>), Text(<< >>), << >>, << >>))
            /\ pc' = "returned"
       ELSE /\ pc' = "match"
            /\ UNCHANGED result
    /\ UNCHANGED << Locals, trace, searched >>
    /\ UNCHANGED Caller
    /\ UNCHANGED dirVars

(* A slip of lib.rs 153: the comparison is not strict. *)
ExceedsByteLimit_NotStrict(l_bytes, r_bytes, byte_limit) ==
    Len(l_bytes) >= byte_limit \/ Len(r_bytes) >= byte_limit

(* lib.rs 153: the guard of the first match arm. *)
ExceedsByteLimit(l_bytes, r_bytes, byte_limit) ==
    Len(l_bytes) > byte_limit \/ Len(r_bytes) > byte_limit

(* A slip of lib.rs 223: the display's default name is stored in the result. *)
NoGrammarName_Text == Some("Text")

(* lib.rs 223: the language name of the arm without a grammar. *)
NoGrammarName == None

ByteLimitName == "Text (exceeded DFT_BYTE_LIMIT)"

GraphLimitName == "Text (exceeded DFT_GRAPH_LIMIT)"

(* lib.rs 153-161 *)
ByteLimitFallback ==
    /\ pc = "match"
    /\ ExceedsByteLimit(args.lhs_bytes, args.rhs_bytes, args.byte_limit)
    /\ lhs_positions' = line_change_positions(lhs_src, rhs_src)
    /\ rhs_positions' = line_change_positions(rhs_src, lhs_src)
    /\ lang_name' = Some(ByteLimitName)
    /\ trace' = trace \o << "line_diff", "line_diff" >>
    /\ pc' = "build_result"
    /\ UNCHANGED << lhs_src, rhs_src, language, lang_config, arena, lhs, rhs, change_map,
                    possibly_changed, exceeded_graph_limit, result, searched >>
    /\ UNCHANGED Caller
    /\ UNCHANGED dirVars

(* lib.rs 220-225 *)
NoGrammarFallback ==
    /\ pc = "match"
    /\ ~ExceedsByteLimit(args.lhs_bytes, args.rhs_bytes, args.byte_limit)
    /\ lang_config = None
    /\ lhs_positions' = line_change_positions(lhs_src, rhs_src)
    /\ rhs_positions' = line_change_positions(rhs_src, lhs_src)
    /\ lang_name' = NoGrammarName
    /\ trace' = trace \o << "line_diff", "line_diff" >>
    /\ pc' = "build_result"
    /\ UNCHANGED << lhs_src, rhs_src, language, lang_config, arena, lhs, rhs, change_map,
                    possibly_changed, exceeded_graph_limit, result, searched >>
    /\ UNCHANGED Caller
    /\ UNCHANGED dirVars

(* lib.rs 162-165 *)
Parse ==
    /\ pc = "match"
    /\ ~ExceedsByteLimit(args.lhs_bytes, args.rhs_bytes, args.byte_limit)
    /\ lang_config # None
    /\ LET l == parse(<< >>, lhs_src, lang_config[1])
           r == parse(l.arena, rhs_src, lang_config[1])
       IN /\ arena' = r.arena
          /\ lhs' = l.roots
          /\ rhs' = r.roots
    /\ trace' = trace \o << "parse", "parse" >>
    /\ pc' = "init_all_info"
    /\ UNCHANGED << lhs_src, rhs_src, language, lang_config, change_map, possibly_changed,
                    exceeded_graph_limit, lang_name, lhs_positions, rhs_positions,
                    result, searched >>
    /\ UNCHANGED Caller
    /\ UNCHANGED dirVars

(* A slip of lib.rs 167: the call is missing. *)
InitAllInfo_Missing ==
    /\ pc = "init_all_info"
    /\ pc' = "trim"
    /\ UNCHANGED << Locals, result, trace, searched >>
    /\ UNCHANGED Caller
    /\ UNCHANGED dirVars

(* lib.rs 167 *)
InitAllInfo ==
    /\ pc = "init_all_info"
    /\ arena' = init_all_info(arena, lhs, rhs)
    /\ trace' = Append(trace, "init_all_info")
    /\ pc' = "trim"
    /\ UNCHANGED << lhs_src, rhs_src, language, lang_config, lhs, rhs, change_map,
                    possibly_changed, exceeded_graph_limit, lang_name, lhs_positions,
                    rhs_positions, result, searched >>
    /\ UNCHANGED Caller
    /\ UNCHANGED dirVars

(* A slip of lib.rs 170: is_err() in place of is_ok(). *)
KeepUnchanged_Inverted(env_is_set) == ~env_is_set

(* lib.rs 170: which branch computes possibly_changed. *)
KeepUnchanged(env_is_set) == env_is_set

(* lib.rs 169-176 *)
Trim ==
    /\ pc = "trim"
    /\ IF KeepUnchanged(env_keep)
       THEN /\ change_map' = EmptyChangeMap
            /\ possibly_changed' = << [lhs |-> lhs, rhs |-> rhs] >>
            /\ trace' = trace
       ELSE LET t == mark_unchanged(arena, lhs, rhs, EmptyChangeMap)
            IN /\ change_map' = t.cm
               /\ possibly_changed' = t.gaps
               /\ trace' = Append(trace, "mark_unchanged")
    /\ exceeded_graph_limit' = FALSE
    /\ pc' = "for"
    /\ UNCHANGED << lhs_src, rhs_src, language, lang_config, arena, lhs, rhs, lang_name,
                    lhs_positions, rhs_positions, result, searched >>
    /\ UNCHANGED Caller
    /\ UNCHANGED dirVars

(* Vec::get(0).copied() *)
First(nodes) == IF nodes = << >> THEN None ELSE Some(nodes[1])

(* lib.rs 178-180: the next gap is taken and its sibling links are set up. *)
GapSetUp ==
    /\ pc = "for"
    /\ possibly_changed # << >>
    /\ arena' = init_next_prev(init_next_prev(arena, possibly_changed[1].lhs),
                               possibly_changed[1].rhs)
    /\ trace' = trace \o << "init_next_prev", "init_next_prev" >>
    /\ pc' = "mark_syntax"
    /\ UNCHANGED << lhs_src, rhs_src, language, lang_config, lhs, rhs, change_map,
                    possibly_changed, exceeded_graph_limit, lang_name, lhs_positions,
                    rhs_positions, result, searched >>
    /\ UNCHANGED Caller
    /\ UNCHANGED dirVars

(* A slip of lib.rs 189-192: the error is swallowed and the loop goes on. *)
SearchFailed_Ignored(res) == FALSE

(* A slip of lib.rs 188-189: the two match arms are swapped. *)
SearchFailed_Swapped(res) == res.ok

(* lib.rs 188-192: whether the search result ends the loop. *)
SearchFailed(res) == ~res.ok

(* lib.rs 182-193 *)
Search ==
    /\ pc = "mark_syntax"
    /\ LET gap == possibly_changed[1]
           res == mark_syntax(arena, First(gap.lhs), First(gap.rhs), change_map,
                              args.graph_limit)
       IN /\ searched' = Append(searched,
                             [ lhs |-> Chain(arena, First(gap.lhs)),
                               rhs |-> Chain(arena, First(gap.rhs)),
                               cm |-> change_map,
                               ok |-> res.ok ])
          /\ change_map' = res.cm
          /\ IF SearchFailed(res)
             THEN /\ exceeded_graph_limit' = TRUE
                  /\ pc' = "if_exceeded"
             ELSE /\ UNCHANGED exceeded_graph_limit
                  /\ pc' = "for"
    /\ possibly_changed' = Tail(possibly_changed)
    /\ trace' = Append(trace, "mark_syntax")
    /\ UNCHANGED << lhs_src, rhs_src, language, lang_config, arena, lhs, rhs, lang_name,
                    lhs_positions, rhs_positions, result >>
    /\ UNCHANGED Caller
    /\ UNCHANGED dirVars

(* A slip of lib.rs 178: the loop is left while gaps remain. *)
LoopEnd_Early ==
    /\ pc = "for"
    /\ pc' = "if_exceeded"
    /\ UNCHANGED << Locals, result, trace, searched >>
    /\ UNCHANGED Caller
    /\ UNCHANGED dirVars

(* lib.rs 178, 194: the loop is left when no gap remains. *)
LoopEnd ==
    /\ pc = "for"
    /\ possibly_changed = << >>
    /\ pc' = "if_exceeded"
    /\ UNCHANGED << Locals, result, trace, searched >>
    /\ UNCHANGED Caller
    /\ UNCHANGED dirVars

(* lib.rs 196-203 *)
GraphLimitFallback ==
    /\ pc = "if_exceeded"
    /\ exceeded_graph_limit
    /\ lhs_positions' = line_change_positions(lhs_src, rhs_src)
    /\ rhs_positions' = line_change_positions(rhs_src, lhs_src)
    /\ lang_name' = Some(GraphLimitName)
    /\ trace' = trace \o << "line_diff", "line_diff" >>
    /\ pc' = "build_result"
    /\ UNCHANGED << lhs_src, rhs_src, language, lang_config, arena, lhs, rhs, change_map,
                    possibly_changed, exceeded_graph_limit, result, searched >>
    /\ UNCHANGED Caller
    /\ UNCHANGED dirVars

(* lib.rs 204-209 *)
FixSliders ==
    /\ pc = "if_exceeded"
    /\ ~exceeded_graph_limit
    /\ language # None
    /\ change_map' = fix_all_sliders(language[1], arena, rhs,
                                     fix_all_sliders(language[1], arena, lhs, change_map))
    /\ trace' = trace \o << "fix_all_sliders", "fix_all_sliders" >>
    /\ pc' = "change_positions"
    /\ UNCHANGED << lhs_src, rhs_src, language, lang_config, arena, lhs, rhs,
                    possibly_changed, exceeded_graph_limit, lang_name, lhs_positions,
                    rhs_positions, result, searched >>
    /\ UNCHANGED Caller
    /\ UNCHANGED dirVars

(* lib.rs 211-217 *)
Project ==
    /\ pc = "change_positions"
    /\ lhs_positions' = syntax_change_positions(arena, lhs, change_map)
    /\ rhs_positions' = syntax_change_positions(arena, rhs, change_map)
    /\ lang_name' = Some(language_name(language[1]))
    /\ trace' = trace \o << "change_positions", "change_positions" >>
    /\ pc' = "build_result"
    /\ UNCHANGED << lhs_src, rhs_src, language, lang_config, arena, lhs, rhs, change_map,
                    possibly_changed, exceeded_graph_limit, result, searched >>
    /\ UNCHANGED Caller
    /\ UNCHANGED dirVars

(* lib.rs 227-236 *)
BuildResult ==
    /\ pc = "build_result"
    /\ result' = Some(DiffResult(lang_name, language, Text(lhs_src), Text(rhs_src),
                                 lhs_positions, rhs_positions))
    /\ pc' = "returned"
    /\ UNCHANGED << Locals, trace, searched >>
    /\ UNCHANGED Caller
    /\ UNCHANGED dirVars

(***************************************************************************)
(* The caller repeats the call on the same inputs with a higher graph      *)
(* limit or with another lhs path kind; the first call's outcome is kept.  *)
(***************************************************************************)
NextCall ==
    /\ pc = "returned"
    /\ call = 1
    /\ first' = Some([args |-> args, result |-> result[1], trace |-> trace])
    /\ call' = 2
    /\ \/ \E gl \in GraphLimits :
            /\ gl > args.graph_limit
            /\ args' = [args EXCEPT !.graph_limit = gl]
       \/ \E lp \in FileArguments :
            /\ lp # args.lhs_path
            /\ args' = [args EXCEPT !.lhs_path = lp]
    /\ pc' = "guess_content"
    /\ lhs_src' = << >> /\ rhs_src' = << >>
    /\ language' = None /\ lang_config' = None
    /\ arena' = << >> /\ lhs' = << >> /\ rhs' = << >>
    /\ change_map' = EmptyChangeMap
    /\ possibly_changed' = << >>
    /\ exceeded_graph_limit' = FALSE
    /\ lang_name' = None
    /\ lhs_positions' = << >> /\ rhs_positions' = << >>
    /\ result' = None
    /\ trace' = << >>
    /\ searched' = << >>
    /\ UNCHANGED env_keep
    /\ UNCHANGED dirVars

Next ==
    \/ GuessContent
    \/ ReplaceTabs
    \/ StripNewline
    \/ GuessLanguage
    \/ CheckIdentical
    \/ ByteLimitFallback
    \/ NoGrammarFallback
    \/ Parse
    \/ InitAllInfo
    \/ Trim
    \/ GapSetUp
    \/ Search
    \/ LoopEnd
    \/ GraphLimitFallback
    \/ FixSliders
    \/ Project
    \/ BuildResult
    \/ NextCall

Spec == Init /\ [][Next]_vars


(***************************************************************************)
(* Directory mode, main.rs 152-167 and 230-263.  The relative paths are    *)
(* diffed by the threads of a rayon pool; for_each runs its closure,       *)
(* print_diff_result, on the thread that produced the result.  Every       *)
(* println! locks standard output for that one line only.                  *)
(***************************************************************************)
Workers == 1..NumWorkers

(* The contents of one relative path in the two directories. *)
DirContents ==
    { [lhs_bytes |-> << "a" >>,        rhs_bytes |-> << "a" >>],
      [lhs_bytes |-> << "a" >>,        rhs_bytes |-> << "b" >>],
      [lhs_bytes |-> << "a", "NUL" >>, rhs_bytes |-> << "NUL" >>],
      [lhs_bytes |-> << "NUL" >>,      rhs_bytes |-> << "NUL" >>] }

RelPath(i) == [stem |-> i, ext |-> "txt"]

(***************************************************************************)
(* diff_file (main.rs 198-222) on a file whose path and content select no  *)
(* grammar: diff_file_content along lib.rs 98-161 and 220-236.             *)
(***************************************************************************)
diff_file(path, l_bytes, r_bytes, tab_width, byte_limit) ==
    LET base == [ lhs_display_path |-> path, rhs_display_path |-> path,
                  language |-> None, detected_language |-> None,
                  lhs_src |-> Binary(l_bytes), rhs_src |-> Binary(r_bytes),
                  lhs_positions |-> << >>, rhs_positions |-> << >> ]
        l_src == strip_trailing_newline(replace_tabs(l_bytes, tab_width))
        r_src == strip_trailing_newline(replace_tabs(r_bytes, tab_width))
    IN  IF guess_content(l_bytes).kind = "Binary" \/ guess_content(r_bytes).kind = "Binary"
        THEN base
        ELSE IF Identical(l_bytes, r_bytes)
        THEN [base EXCEPT !.lhs_src = Text(<< >>), !.rhs_src = Text(<< >>)]
        ELSE [base EXCEPT
                !.language = IF ExceedsByteLimit(l_bytes, r_bytes, byte_limit)
                             THEN Some(ByteLimitName) ELSE None,
                !.lhs_src = Text(l_src), !.rhs_src = Text(r_src),
                !.lhs_positions = line_change_positions(l_src, r_src),
                !.rhs_positions = line_change_positions(r_src, l_src)]

Header(summary, name) ==
    [line |-> "header", path |-> summary.lhs_display_path, lang |-> name]

Line(summary, text) ==
    [line |-> text, path |-> summary.lhs_display_path, lang |-> ""]

(***************************************************************************)
(* print_diff_result, lib.rs 249-358: the println! calls it makes, in      *)
(* order.  The hunks are empty when no position is reported; the display   *)
(* of a file with hunks is taken as one write.                             *)
(***************************************************************************)
print_diff_result(opt_print_unchanged, summary) ==
    IF summary.lhs_src.kind = "Text" /\ summary.rhs_src.kind = "Text" THEN
        LET name == IF summary.language = None THEN "Text" ELSE summary.language[1]
        IN IF summary.lhs_positions = << >> /\ summary.rhs_positions = << >>
           THEN IF opt_print_unchanged
                THEN << Header(summary, name),
                        Line(summary, IF name = "Text" \/ summary.lhs_src = summary.rhs_src
                                      THEN "No changes."
                                      ELSE "No syntactic changes.") >>
                ELSE << >>
           ELSE << Line(summary, "hunks") >>
    ELSE IF summary.lhs_src.kind = "Binary" /\ summary.rhs_src.kind = "Binary" THEN
        LET changed == summary.lhs_src.data # summary.rhs_src.data
        IN IF opt_print_unchanged \/ changed
           THEN << Header(summary, "binary"),
                   Line(summary, IF changed THEN "Binary contents changed."
                                 ELSE "No changes.") >>
           ELSE << >>
    ELSE << Header(summary, "binary"), Line(summary, "Binary contents changed.") >>

(* lib.rs 250-251, 321, 342: the arm of the match in print_diff_result that a
   result selects. *)
PrintArm(summary) ==
    IF summary.lhs_src.kind = "Text" /\ summary.rhs_src.kind = "Text" THEN "Text, Text"
    ELSE IF summary.lhs_src.kind = "Binary" /\ summary.rhs_src.kind = "Binary"
    THEN "Binary, Binary"
    ELSE "mixed"

DirInit ==
    /\ files \in [1..NumFiles -> DirContents]
    /\ print_unchanged \in BOOLEAN
    /\ pending = 1..NumFiles
    /\ wpc = [w \in Workers |-> "idle"]
    /\ wfile = [w \in Workers |-> 0]
    /\ wresult = [w \in Workers |-> None]
    /\ wnext = [w \in Workers |-> 0]
    /\ stdout = << >>
    /\ args = << >>
    /\ env_keep = FALSE
    /\ pc = "directories"
    /\ call = 0
    /\ first = None
    /\ LocalsInit

(* main.rs 245: a thread of the pool takes one of the remaining paths. *)
TakePath(w) ==
    /\ wpc[w] = "idle"
    /\ \E i \in pending :
          /\ pending' = pending \ {i}
          /\ wfile' = [wfile EXCEPT ![w] = i]
    /\ wpc' = [wpc EXCEPT ![w] = "diff_file"]
    /\ UNCHANGED << files, print_unchanged, wresult, wnext, stdout >>
    /\ UNCHANGED fileVars

(* main.rs 245-262: the map closure. *)
DiffFile(w) ==
    /\ wpc[w] = "diff_file"
    /\ wresult' = [wresult EXCEPT ![w] =
                      Some(diff_file(RelPath(wfile[w]), files[wfile[w]].lhs_bytes,
                                     files[wfile[w]].rhs_bytes, MaxTabWidth, MaxByteLimit))]
    /\ wnext' = [wnext EXCEPT ![w] = 1]
    /\ wpc' = [wpc EXCEPT ![w] = "print_diff_result"]
    /\ UNCHANGED << files, print_unchanged, wfile, pending, stdout >>
    /\ UNCHANGED fileVars

(* main.rs 164-166: the for_each closure; one println! of print_diff_result. *)
Println(w) ==
    /\ wpc[w] = "print_diff_result"
    /\ wnext[w] <= Len(print_diff_result(print_unchanged, wresult[w][1]))
    /\ stdout' = Append(stdout, print_diff_result(print_unchanged, wresult[w][1])[wnext[w]])
    /\ wnext' = [wnext EXCEPT ![w] = wnext[w] + 1]
    /\ UNCHANGED << files, print_unchanged, wpc, wfile, wresult, pending >>
    /\ UNCHANGED fileVars

(* print_diff_result returns; the thread is free for the next path. *)
PrintReturn(w) ==
    /\ wpc[w] = "print_diff_result"
    /\ wnext[w] > Len(print_diff_result(print_unchanged, wresult[w][1]))
    /\ wpc' = [wpc EXCEPT ![w] = "idle"]
    /\ UNCHANGED << files, print_unchanged, wfile, wresult, wnext, pending, stdout >>
    /\ UNCHANGED fileVars

DirNext ==
    \E w \in Workers :
        \/ TakePath(w)
        \/ DiffFile(w)
        \/ Println(w)
        \/ PrintReturn(w)

DirSpec == DirInit /\ [][DirNext]_vars


(***************************************************************************)
(* Properties.                                                             *)
(***************************************************************************)
Ran(tr, op) == \E k \in 1..Len(tr) : tr[k] = op

Count(tr, op) == Cardinality({ k \in 1..Len(tr) : tr[k] = op })

Returned == pc = "returned" /\ result # None

IsBinary(bytes) == guess_content(bytes).kind = "Binary"

TextCall == ~IsBinary(args.lhs_bytes) /\ ~IsBinary(args.rhs_bytes)

OverByteLimit == Len(args.lhs_bytes) > args.byte_limit \/ Len(args.rhs_bytes) > args.byte_limit

(* The result's positions are those of the line differ on the result's sources. *)
LineDiffed(res) ==
    /\ res.lhs_positions = line_change_positions(res.lhs_src.data, res.rhs_src.data)
    /\ res.rhs_positions = line_change_positions(res.rhs_src.data, res.lhs_src.data)

AstOps == { "parse", "init_all_info", "mark_unchanged", "init_next_prev", "mark_syntax",
            "fix_all_sliders", "change_positions" }

(* C1: whenever diff_file_content returns for inputs with lhs_bytes = rhs_bytes,
   text or binary and whatever the other arguments are, both position lists of
   the result are empty. *)
C1_IdenticalInputsEmptyPositions ==
    (Returned /\ args.lhs_bytes = args.rhs_bytes)
        => /\ result[1].lhs_positions = << >>
           /\ result[1].rhs_positions = << >>

(* identical text inputs with a grammar, returned through lib.rs 137-150 *)
C1_Witness ==
    /\ Returned
    /\ args.lhs_bytes = args.rhs_bytes
    /\ Len(args.lhs_bytes) > 2
    /\ result[1].lhs_src.kind = "Text"
    /\ result[1].language # None

(* C2: when either input is classified as binary, the call returns right after
   guess_content: both sides are reported as Binary with the original bytes,
   the language name and the detected language are null, both position lists
   are empty, and no later step has run. *)
C2_BinaryReturnsImmediately ==
    (Returned /\ (IsBinary(args.lhs_bytes) \/ IsBinary(args.rhs_bytes)))
        => /\ result[1] = [ lhs_display_path |-> args.lhs_display_path,
                            rhs_display_path |-> args.rhs_display_path,
                            language |-> None,
                            detected_language |-> None,
                            lhs_src |-> [kind |-> "Binary", data |-> args.lhs_bytes],
                            rhs_src |-> [kind |-> "Binary", data |-> args.rhs_bytes],
                            lhs_positions |-> << >>,
                            rhs_positions |-> << >> ]
           /\ trace = << "guess_content" >>

(* a text lhs over the byte limit against a binary rhs, with an override *)
C2_Witness ==
    /\ Returned
    /\ ~IsBinary(args.lhs_bytes) /\ IsBinary(args.rhs_bytes)
    /\ args.language_override # None
    /\ Len(args.lhs_bytes) > args.byte_limit

(* C3: for text, non-identical inputs, when the raw length of either input is
   strictly greater than byte_limit the result comes from the line differ, is
   named "Text (exceeded DFT_BYTE_LIMIT)" and nothing was parsed, trimmed or
   searched; when both raw lengths are at most byte_limit the result does not
   carry that name. *)
C3_ByteLimitFallback ==
    (Returned /\ TextCall /\ args.lhs_bytes # args.rhs_bytes)
        => IF OverByteLimit
           THEN /\ result[1].language = Some("Text (exceeded DFT_BYTE_LIMIT)")
                /\ LineDiffed(result[1])
                /\ \A op \in AstOps : ~Ran(trace, op)
           ELSE result[1].language # Some("Text (exceeded DFT_BYTE_LIMIT)")

(* an input over the limit although a grammar was found, with changed lines *)
C3_Witness ==
    /\ Returned /\ TextCall /\ args.lhs_bytes # args.rhs_bytes
    /\ OverByteLimit
    /\ lang_config # None
    /\ result[1].lhs_positions # << >>

(* C4: when a search returns ExceededGraphLimit, it is the last search of the
   call, neither fix_all_sliders nor the syntax projection runs, the positions
   are those of the line differ on the complete sources, and the language name
   is "Text (exceeded DFT_GRAPH_LIMIT)". *)
C4_GraphLimitFallback ==
    (Returned /\ \E k \in 1..Len(searched) : ~searched[k].ok)
        => /\ \A k \in 1..Len(searched) : ~searched[k].ok => k = Len(searched)
           /\ Count(trace, "mark_syntax") = Len(searched)
           /\ ~Ran(trace, "fix_all_sliders")
           /\ ~Ran(trace, "change_positions")
           /\ LineDiffed(result[1])
           /\ result[1].lhs_src = [kind |-> "Text", data |-> lhs_src]
           /\ result[1].rhs_src = [kind |-> "Text", data |-> rhs_src]
           /\ result[1].language = Some("Text (exceeded DFT_GRAPH_LIMIT)")

(* the first gap was searched, the second exceeded the limit, and the change
   map already holds entries *)
C4_Witness ==
    /\ Returned
    /\ Len(searched) = 2
    /\ searched[1].ok /\ ~searched[2].ok
    /\ DOMAIN change_map # {}

(* C4, a second case: the first of two gaps exceeded the limit and the second
   was never searched. *)
C4_LaterGapNotSearched ==
    /\ Returned
    /\ Len(searched) = 1 /\ ~searched[1].ok
    /\ possibly_changed # << >>

NoGrammar(res) ==
    /\ args.language_override = None
    /\ guess(GuessPath(args.rhs_path, args.lhs_display_path, args.rhs_display_path),
             GuessSrc(args.rhs_path, res.lhs_src.data, res.rhs_src.data)) = None

(* C5 as stated: for text, non-identical inputs without a grammar the result
   comes from the line differ and its language name is null. *)
C5_NoGrammarNameNull ==
    (Returned /\ TextCall /\ args.lhs_bytes # args.rhs_bytes /\ NoGrammar(result[1]))
        => /\ LineDiffed(result[1])
           /\ result[1].language = None

(* C5 amended: for text, non-identical inputs without a grammar the result
   comes from the line differ; its language name is null when neither input
   exceeds byte_limit, and "Text (exceeded DFT_BYTE_LIMIT)" otherwise. *)
C5_NoGrammarWithinByteLimit ==
    (Returned /\ TextCall /\ args.lhs_bytes # args.rhs_bytes /\ NoGrammar(result[1]))
        => /\ LineDiffed(result[1])
           /\ result[1].language =
                 IF OverByteLimit THEN Some("Text (exceeded DFT_BYTE_LIMIT)") ELSE None

(* no grammar, an input of exactly byte_limit bytes, a changed line *)
C5_Witness ==
    /\ Returned /\ TextCall /\ args.lhs_bytes # args.rhs_bytes
    /\ NoGrammar(result[1])
    /\ Len(args.lhs_bytes) = args.byte_limit /\ Len(args.rhs_bytes) <= args.byte_limit
    /\ result[1].lhs_positions # << >>

(* C6: in directory mode the lines of one file's report are contiguous on
   standard output: no line of another file lies between two lines of a file. *)
C6_ReportsDoNotInterleave ==
    \A i, j, k \in 1..Len(stdout) :
        (i < j /\ j < k /\ stdout[i].path = stdout[k].path)
            => stdout[j].path = stdout[i].path

HeavyOps == AstOps \cup { "line_diff" }

(* C7 as stated: when lhs_bytes = rhs_bytes the call returns before any of tab
   replacement, newline stripping, language guessing, grammar lookup, parsing,
   trimming, search, slider correction or line diffing has run. *)
C7_NoWorkBeforeShortCircuit ==
    (Returned /\ args.lhs_bytes = args.rhs_bytes)
        => \A op \in HeavyOps \cup { "replace_tabs", "strip_newline", "guess",
                                     "from_language" } : ~Ran(trace, op)

(* C7 amended: when lhs_bytes = rhs_bytes the call returns before any parsing,
   init_all_info, trimming, search, slider correction or line diffing; for text
   inputs tab replacement, newline stripping and the choice of the language
   (the guesser unless overridden, the grammar lookup when a language is found)
   have run by then, and for binary inputs only guess_content has. *)
C7_ShortCircuitAfterLanguageChoice ==
    (Returned /\ args.lhs_bytes = args.rhs_bytes)
        => /\ \A op \in HeavyOps : ~Ran(trace, op)
           /\ IF IsBinary(args.lhs_bytes)
              THEN trace = << "guess_content" >>
              ELSE trace = << "guess_content", "replace_tabs", "strip_newline" >>
                           \o (IF args.language_override = None THEN << "guess" >> ELSE << >>)
                           \o (IF result[1].detected_language # None
                               THEN << "from_language" >> ELSE << >>)

(* identical text inputs: the guesser and the grammar lookup ran before the return *)
C7_Witness ==
    /\ Returned /\ args.lhs_bytes = args.rhs_bytes
    /\ Ran(trace, "guess") /\ Ran(trace, "from_language")
    /\ Ran(trace, "replace_tabs")

AstCompleted(tr) == Ran(tr, "change_positions")

RaisedGraphLimit ==
    /\ call = 2 /\ Returned /\ first # None
    /\ first[1].args.graph_limit < args.graph_limit
    /\ first[1].args = [args EXCEPT !.graph_limit = first[1].args.graph_limit]

(* C8: when the call is repeated on the same inputs with a higher graph limit,
   a first call that completed on the AST path is followed by a second call
   that completes on the AST path with an equal result; the two results differ
   only when the first is the "Text (exceeded DFT_GRAPH_LIMIT)" fallback and the
   second an AST result. *)
C8_GraphLimitMonotone ==
    RaisedGraphLimit
        => /\ AstCompleted(first[1].trace)
                => (AstCompleted(trace) /\ result[1] = first[1].result)
           /\ result[1] # first[1].result
                => /\ first[1].result.language = Some("Text (exceeded DFT_GRAPH_LIMIT)")
                   /\ AstCompleted(trace)

(* both calls searched a gap and projected the change map, with novel spans *)
C8_Witness ==
    /\ RaisedGraphLimit
    /\ AstCompleted(first[1].trace)
    /\ Count(first[1].trace, "mark_syntax") >= 1
    /\ \E k \in 1..Len(result[1].lhs_positions) :
          result[1].lhs_positions[k].kind.kind = "Novel"

(* C8, a second case: the higher limit turned a fallback into an AST result. *)
C8_FallbackBecomesAst ==
    /\ RaisedGraphLimit
    /\ first[1].result.language = Some("Text (exceeded DFT_GRAPH_LIMIT)")
    /\ AstCompleted(trace)

SearchedGaps == [ k \in 1..Len(searched) |-> [lhs |-> searched[k].lhs, rhs |-> searched[k].rhs] ]

AfterTrim == pc \in { "for", "mark_syntax", "if_exceeded", "change_positions" }
             \/ (pc \in { "build_result", "returned" } /\ Ran(trace, "init_all_info"))

(* C9: with DFT_DBG_KEEP_UNCHANGED set, mark_unchanged is not called and the
   one search of the call is given the complete lhs and rhs root lists with an
   empty change map; without it, the searches are given the gaps returned by
   mark_unchanged, one by one in the order returned. *)
C9_KeepUnchangedSkipsTrimmer ==
    AfterTrim
        => IF env_keep
           THEN /\ ~Ran(trace, "mark_unchanged")
                /\ Len(searched) <= 1
                /\ pc \in { "if_exceeded", "change_positions", "build_result", "returned" }
                      => Len(searched) = 1
                /\ searched # << >>
                      => /\ searched[1].lhs = lhs /\ searched[1].rhs = rhs
                         /\ searched[1].cm = EmptyChangeMap
           ELSE /\ Count(trace, "mark_unchanged") = 1
                /\ SearchedGaps \o possibly_changed
                      = mark_unchanged(arena, lhs, rhs, EmptyChangeMap).gaps
                /\ searched # << >>
                      => searched[1].cm = mark_unchanged(arena, lhs, rhs, EmptyChangeMap).cm

(* the variable is set and the search got both complete root lists, which the
   trimmer would have cut down *)
C9_Witness ==
    /\ Returned /\ env_keep
    /\ Len(searched) = 1
    /\ Len(searched[1].lhs) >= 2
    /\ searched[1].lhs = lhs /\ searched[1].rhs = rhs
    /\ mark_unchanged(arena, lhs, rhs, EmptyChangeMap).gaps # << [lhs |-> lhs, rhs |-> rhs] >>

(* C9, a second case: the variable is not set and two gaps were searched. *)
C9_TwoGapsSearched ==
    /\ Returned /\ ~env_keep
    /\ Len(searched) = 2

(* The fields init_next_prev never touches. *)
StableFields(ar) ==
    [ ref \in 1..Len(ar) |->
        << ar[ref].parent, ar[ref].num_ancestors, ar[ref].content_id, ar[ref].unique_id >> ]

(* init_all_info ran exactly once, directly after the two parses. *)
InitAllInfoOnce ==
    /\ Count(trace, "init_all_info") <= 1
    /\ Ran(trace, "init_all_info")
          => /\ Count(trace, "parse") = 2
             /\ \E k \in 3..Len(trace) :
                   trace[k] = "init_all_info" /\ trace[k - 1] = "parse" /\ trace[k - 2] = "parse"
    /\ AfterTrim => Count(trace, "init_all_info") = 1
    /\ \A op \in AstOps \ { "parse", "init_all_info" } :
          Ran(trace, op) => Ran(trace, "init_all_info")

(* The steps that allocate the nodes, fill them in, or start a new call. *)
WritesExpected == pc \in { "match", "init_all_info", "returned" }

(* C10 as stated: init_all_info runs exactly once per call, after both sides
   are parsed, and no later step writes a navigation field of a node. *)
C10_InitAllInfoOnlyWriter ==
    /\ []InitAllInfoOnce
    /\ [][~WritesExpected => NavFields(arena') = NavFields(arena)]_vars

(* C10 amended: init_all_info runs exactly once per call, after both sides are
   parsed, and is the only writer of parent, ancestor count, fingerprint and
   identity; the previous and next sibling links are written again by
   init_next_prev in the set-up of each gap's search, and by no other later
   step. *)
C10_OnlySiblingLinksRewritten ==
    /\ []InitAllInfoOnce
    /\ [][~WritesExpected
            => /\ StableFields(arena') = StableFields(arena)
               /\ pc # "for" => NavFields(arena') = NavFields(arena)]_vars

(* a gap's set-up has cut a sibling link that init_all_info had set *)
C10_Witness ==
    /\ pc = "mark_syntax"
    /\ Count(trace, "init_all_info") = 1
    /\ NavFields(arena) # NavFields(init_all_info(arena, lhs, rhs))
    /\ StableFields(arena) = StableFields(init_all_info(arena, lhs, rhs))

(* The place of an operation in the chain of lib.rs 162-219; the operations
   before the match have place 0, the line differ comes last. *)
StageOf(op) ==
    CASE op = "parse" -> 1
      [] op = "init_all_info" -> 2
      [] op = "mark_unchanged" -> 3
      [] op \in { "init_next_prev", "mark_syntax" } -> 4
      [] op = "fix_all_sliders" -> 5
      [] op = "change_positions" -> 6
      [] op = "line_diff" -> 7
      [] OTHER -> 0

(* C11: on the AST path the operations of one call run in the order parse
   (lhs, then rhs, in one arena), init_all_info, trimming, the gaps' searches
   one at a time in list order, slider correction of both sides, projection
   of both sides, and no stage runs again after a later one has started.  A
   search starts only after the step that computes the gaps has finished,
   slider correction only after every gap was searched and every search
   returned Ok, and the projection reads the change map left by the slider
   correction of both sides. *)
C11_StagesForwardChain ==
    /\ \A i, j \in 1..Len(trace) :
            i < j => StageOf(trace[i]) <= StageOf(trace[j])
    /\ Count(trace, "parse") \in { 0, 2 }
    /\ Count(trace, "init_all_info") <= 1
    /\ Count(trace, "mark_unchanged") <= 1
    /\ Count(trace, "fix_all_sliders") \in { 0, 2 }
    /\ Count(trace, "change_positions") \in { 0, 2 }
    /\ Count(trace, "parse") = 2
            => \A i \in 1..Len(lhs), j \in 1..Len(rhs) : lhs[i] < rhs[j]
    /\ \A k \in 1..Len(trace) :
            trace[k] = "mark_syntax"
                => /\ k > 2
                   /\ trace[k - 1] = "init_next_prev" /\ trace[k - 2] = "init_next_prev"
                   /\ Count(trace, "parse") = 2
                   /\ Count(trace, "init_all_info") = 1
                   /\ env_keep \/ Count(trace, "mark_unchanged") = 1
    /\ Count(trace, "mark_syntax") = Len(searched)
    /\ Count(trace, "init_next_prev")
            = 2 * Len(searched) + (IF pc = "mark_syntax" THEN 2 ELSE 0)
    /\ Ran(trace, "fix_all_sliders")
            => /\ possibly_changed = << >>
               /\ \A k \in 1..Len(searched) : searched[k].ok
    /\ Ran(trace, "change_positions")
            => /\ Count(trace, "fix_all_sliders") = 2
               /\ lhs_positions = syntax_change_positions(arena, lhs, change_map)
               /\ rhs_positions = syntax_change_positions(arena, rhs, change_map)

(* a call that trimmed, searched two gaps in turn, corrected sliders and
   projected the positions *)
C11_Witness ==
    /\ Returned
    /\ Ran(trace, "mark_unchanged")
    /\ Len(searched) >= 2
    /\ Ran(trace, "fix_all_sliders")
    /\ Ran(trace, "change_positions")
    /\ result[1].lhs_positions # << >>

(* C12: every DiffResult that diff_file_content returns, on every return
   path, has both sources Binary or both sources Text, so print_diff_result
   never takes its text-against-binary arm for it. *)
C12_ResultSidesSameKind ==
    result # None
        => /\ result[1].lhs_src.kind = result[1].rhs_src.kind
           /\ result[1].lhs_src.kind \in { "Binary", "Text" }
           /\ PrintArm(result[1]) # "mixed"
           /\ PrintArm(result[1]) = "Binary, Binary"
                 <=> (IsBinary(args.lhs_bytes) \/ IsBinary(args.rhs_bytes))

(* a text input against a binary input: the result reports both as Binary *)
C12_Witness ==
    /\ Returned
    /\ ~IsBinary(args.lhs_bytes) /\ IsBinary(args.rhs_bytes)
    /\ args.lhs_bytes # << >>
    /\ PrintArm(result[1]) = "Binary, Binary"

(* C12, the other return paths: the early return for identical text, the line
   diff and the syntactic diff all report Text on both sides. *)
C12_TextPathsWitness ==
    /\ Returned /\ call = 2 /\ first # None
    /\ PrintArm(result[1]) = "Text, Text" /\ PrintArm(first[1].result) = "Text, Text"
    /\ Ran(trace, "change_positions") /\ Ran(first[1].trace, "line_diff")

(* The call was repeated with another lhs path kind and nothing else changed. *)
ChangedLhsPath ==
    /\ call = 2 /\ Returned /\ first # None
    /\ first[1].args.lhs_path # args.lhs_path
    /\ first[1].args = [args EXCEPT !.lhs_path = first[1].args.lhs_path]

(* The language guess has been made for text inputs. *)
AfterGuess == TextCall /\ pc \notin { "guess_content", "replace_tabs", "strip_newline",
                                     "guess_language" }

(* C13: two calls that differ only in lhs_path return equal DiffResults.  The
   language is the override when there is one; otherwise the guesser is
   consulted, with the rhs source and the rhs display path when rhs_path is a
   named path, the rhs source and the lhs display path when it is stdin, and
   the lhs source and the lhs display path when it is /dev/null. *)
C13_ResultIndependentOfLhsPath ==
    /\ ChangedLhsPath
            => /\ result[1] = first[1].result
               /\ trace = first[1].trace
    /\ AfterGuess
            => /\ Ran(trace, "guess") <=> args.language_override = None
               /\ language =
                     IF args.language_override # None THEN args.language_override
                     ELSE CASE args.rhs_path = "NamedPath"
                                 -> guess(args.rhs_display_path, rhs_src)
                            [] args.rhs_path = "Stdin"
                                 -> guess(args.lhs_display_path, rhs_src)
                            [] args.rhs_path = "DevNull"
                                 -> guess(args.lhs_display_path, lhs_src)

(* the rhs is stdin, so the language came from the lhs display path, and the
   second call with another lhs path kind completed a syntactic diff *)
C13_Witness ==
    /\ ChangedLhsPath
    /\ args.language_override = None
    /\ args.rhs_path = "Stdin"
    /\ args.lhs_display_path.ext # args.rhs_display_path.ext
    /\ result[1].detected_language = guess(args.lhs_display_path, rhs_src)
    /\ result[1].detected_language # guess(args.rhs_display_path, rhs_src)
    /\ AstCompleted(trace)
    /\ result[1].lhs_positions # << >>

(* C13, a second case: the rhs is /dev/null and the lhs source chose the language. *)
C13_DevNullWitness ==
    /\ ChangedLhsPath
    /\ args.language_override = None
    /\ args.rhs_path = "DevNull"
    /\ result[1].detected_language = guess(args.lhs_display_path, lhs_src)
    /\ result[1].detected_language # guess(args.lhs_display_path, rhs_src)

====
